---- MODULE Spec2Model ----
(***************************************************************************)
(* Model of the Data Cloud query client: run_query (submit, poll,          *)
(* paginate) and _handle_error_response from connect_api_dc_sql.py, and    *)
(* the credential store OAuthSession.ensure_access from oauth.py.          *)
(*                                                                         *)
(* The remote service is the environment: every HTTP exchange is one       *)
(* action whose response is drawn from a bounded set of responses, and the *)
(* action runs the client's code from the request up to the next request   *)
(* (or up to the return / the raise).                                      *)
(***************************************************************************)
EXTENDS Integers, Sequences, FiniteSets, TLC

(***************************************************************************)
(* Bounds of the model.                                                    *)
(***************************************************************************)
\* largest rowCount the service reports
MaxRowCount == 2
\* the pagination_batch_size argument of run_query (rowLimit of a row fetch);
\* the service answers a row fetch with at most this many rows
PageSize == 2
\* rows a submission response carries inline
MaxInline == 1
\* polls / row fetches of one invocation that the model follows
MaxPolls == 2
MaxFetches == 2
\* the clock of the credential store runs from 0 to MaxTime minutes
MaxTime == 115
\* at most MaxFlows authorization flows are started
MaxFlows == 3
\* at most MaxCallbacks callback requests reach the listener of one flow
MaxCallbacks == 2

(***************************************************************************)
(* Python values.  An optional value (a missing JSON key, None) is the      *)
(* empty tuple, a present one a 1-tuple.                                    *)
(***************************************************************************)
Absent == <<>>
Some(x) == <<x>>
IsSome(o) == Len(o) = 1
Get(o) == o[1]

\* A tree node: Python strings and decoded JSON values share one shape.
\*   t = "text"  a Python str that is not JSON text, s its characters
\*   t = "json"  a Python str that is the JSON encoding of the value a[1]
\*   t = "null" | "true" | "false" | "num" (s its digits) | "list" | "obj"
\*   t = "field" a key (s) / value (a[1]) pair of an "obj"
Node(t, s, a) == [t |-> t, s |-> s, a |-> a]
RawText(s) == Node("text", s, <<>>)
Dumps(v) == Node("json", "", <<v>>)
JNull == Node("null", "", <<>>)
JNum(s) == Node("num", s, <<>>)
JList(elems) == Node("list", "", elems)
JObj(fields) == Node("obj", "", fields)
Field(k, v) == Node("field", k, <<v>>)

IsStr(x) == x.t \in {"text", "json"}

\* Python truthiness of a decoded JSON value / str
Truthy(x) ==
    CASE x.t = "null" -> FALSE
      [] x.t = "false" -> FALSE
      [] x.t = "true" -> TRUE
      [] x.t = "num" -> x.s # "0"
      [] x.t = "text" -> x.s # ""
      [] x.t = "json" -> TRUE
      [] OTHER -> Len(x.a) > 0

\* json.loads(x): [ok |-> FALSE] stands for the exception it raises
\* (TypeError for a non-str, JSONDecodeError for text that is not JSON)
json_loads(x) ==
    IF x.t = "json" THEN [ok |-> TRUE, v |-> x.a[1]]
    ELSE [ok |-> FALSE, v |-> JNull]

\* dict.get(key, default) on a decoded JSON object
DictGet(obj, key, default) ==
    LET hits == {i \in 1..Len(obj.a) : obj.a[i].s = key}
    IN  IF hits = {} THEN default
        ELSE obj.a[CHOOSE i \in hits : \A j \in hits : j <= i].a[1]


(***************************************************************************)
(* HTTP responses.                                                         *)
(***************************************************************************)
\* status codes the service answers with (final responses)
StatusCodes == {200, 201, 304, 400, 500}

Reason(sc) ==
    CASE sc = 200 -> "OK"
      [] sc = 201 -> "Created"
      [] sc = 304 -> "Not Modified"
      [] sc = 400 -> "Bad Request"
      [] OTHER -> "Internal Server Error"

\* a body that is no JSON at all
NotJson == RawText("Service Unavailable")

\* the error detail object of the Connect API and its JSON encoding
Details == JObj(<<Field("primaryMessage", RawText("X")), Field("customerHint", RawText("Y"))>>)

\* values of the "message" key of the first list element
MessageValues ==
    { Dumps(Details),                 \* JSON-encoded object
      Dumps(JObj(<<>>)),              \* JSON-encoded empty object
      Dumps(JList(<<JNum("1")>>)),    \* JSON-encoded list
      Dumps(JNum("0")),               \* JSON-encoded 0
      Dumps(JNum("7")),               \* JSON-encoded number
      Dumps(JNull),                   \* the text null
      Dumps(RawText("s")),            \* JSON-encoded string
      RawText(""),                    \* empty string
      RawText("plain words"),         \* a string that is not JSON
      JNum("5"),                      \* not a string
      JNull,
      Details }                       \* an object that is not encoded

\* bodies of a response, as text
ErrorBodies ==
    { NotJson,
      RawText(""),
      Dumps(JObj(<<Field("error", RawText("x"))>>)),
      Dumps(JNull),
      Dumps(JList(<<>>)),
      Dumps(JList(<<RawText("boom")>>)),
      Dumps(JList(<<JObj(<<>>)>>)),
      Dumps(JList(<<JObj(<<Field("message", Dumps(Details))>>), JObj(<<>>)>>)) }
    \cup { Dumps(JList(<<JObj(<<Field("message", m)>>)>>)) : m \in MessageValues }

\* the body of a 2xx response is read with .json(), never as text
PayloadText == RawText("(payload)")

\* a response: the status line, the body as text (read on the error path) and the
\* body as decoded by .json() (read on the 2xx path; Absent when .json() raises)
Responses(codes, bodies, payloads) ==
    { [status_code |-> sc, reason |-> Reason(sc), text |-> b, json |-> Absent] :
          sc \in {c \in codes : c >= 300}, b \in bodies }
    \cup
    { [status_code |-> sc, reason |-> Reason(sc), text |-> PayloadText, json |-> Some(p)] :
          sc \in {c \in codes : c < 300}, p \in payloads }
    \cup
    { [status_code |-> sc, reason |-> Reason(sc), text |-> NotJson, json |-> Absent] :
          sc \in {c \in codes : c < 300} }

(***************************************************************************)
(* Exceptions.                                                             *)
(***************************************************************************)
\* raise Exception(status, reason, message)
Exception3(status, reason, message) ==
    [type |-> "Exception", status |-> status, reason |-> reason, message |-> message]
\* the TypeError of int(None)
TypeError ==
    [type |-> "TypeError", status |-> 0, reason |-> "",
     message |-> RawText("int() argument must be a string, a bytes-like object or a real number, not 'NoneType'")]
\* the error of response.json() on a body that is not JSON
JSONDecodeError ==
    [type |-> "JSONDecodeError", status |-> 0, reason |-> "",
     message |-> RawText("Expecting value: line 1 column 1 (char 0)")]
NoException ==
    [type |-> "none", status |-> 0, reason |-> "", message |-> RawText("")]

(***************************************************************************)
(* _handle_error_response                                                  *)
(***************************************************************************)
\* ErrorMessage without the "if details" test of line 27
ErrorMessage_AnyDetails(text) ==
    LET outer == json_loads(text)
    IN  IF ~outer.ok THEN text
        ELSE LET payload == outer.v
             IN  IF payload.t = "list" /\ Len(payload.a) > 0
                 THEN LET structured_message == payload.a[1]
                      IN  IF structured_message.t # "obj" THEN text
                          ELSE LET errors_details_json ==
                                       DictGet(structured_message, "message", RawText(""))
                                   details ==
                                       IF Truthy(errors_details_json)
                                       THEN json_loads(errors_details_json)
                                       ELSE [ok |-> FALSE, v |-> JNull]
                               IN  IF details.ok THEN errors_details_json ELSE text
                 ELSE text

\* lines 17-32: the message of the failure
ErrorMessage(text) ==
    LET outer == json_loads(text)
    IN  IF ~outer.ok THEN text
        ELSE LET payload == outer.v
             IN  IF payload.t = "list" /\ Len(payload.a) > 0
                 THEN LET structured_message == payload.a[1]
                      IN  IF structured_message.t # "obj" THEN text
                          ELSE LET errors_details_json ==
                                       DictGet(structured_message, "message", RawText(""))
                                   details ==
                                       IF Truthy(errors_details_json)
                                       THEN json_loads(errors_details_json)
                                       ELSE [ok |-> TRUE, v |-> JNull]
                               IN  IF details.ok /\ Truthy(details.v)
                                   THEN errors_details_json
                                   ELSE text
                 ELSE text

\* line 15 with 400 as the threshold
HandleErrorResponse_From400(response) ==
    IF response.status_code >= 400
    THEN Exception3(response.status_code, response.reason, ErrorMessage(response.text))
    ELSE NoException

\* the exception _handle_error_response raises for a response, or NoException
HandleErrorResponse(response) ==
    IF response.status_code >= 300
    THEN Exception3(response.status_code, response.reason, ErrorMessage(response.text))
    ELSE NoException

(***************************************************************************)
(* _handle_error_response on its own: a response comes in, the function    *)
(* raises or returns.                                                      *)
(***************************************************************************)
VARIABLES
    h_response,         \* the argument of _handle_error_response
    h_raised            \* Absent before the call; then the exception raised, or
                      \* NoException when the function returned
hvars == <<h_response, h_raised>>

\* no call of _handle_error_response on its own
HIdle == h_response = [status_code |-> 0, reason |-> "", text |-> RawText(""), json |-> Absent]
         /\ h_raised = Absent

\* any status with any body
HInit ==
    /\ h_response \in { [status_code |-> sc, reason |-> Reason(sc), text |-> b, json |-> Absent] :
                        sc \in StatusCodes, b \in ErrorBodies }
    /\ h_raised = Absent

\* lines 14-39
HandleError ==
    /\ h_raised = Absent
    /\ h_raised' = Some(HandleErrorResponse(h_response))
    /\ UNCHANGED h_response

(***************************************************************************)
(* run_query: the payloads of 2xx responses                                *)
(***************************************************************************)
RECURSIVE SeqsUpTo(_, _)
\* all sequences over S of length at most n
SeqsUpTo(S, n) ==
    IF n = 0 THEN {<<>>}
    ELSE LET shorter == SeqsUpTo(S, n - 1)
         IN  shorter \cup {Append(q, x) : q \in {r \in shorter : Len(r) = n - 1}, x \in S}

Optional(S) == {Absent} \cup {Some(x) : x \in S}

\* the "status" object of a submission response
StatusObjects(qids, completions, counts) ==
    [queryId : qids, completionStatus : completions, rowCount : counts]
\* submit_payload.get("status", {})
EmptyStatusObject == [queryId |-> Absent, completionStatus |-> Absent, rowCount |-> Absent]

SubmitPayloadSet(statuses, qids, datas, metadatas) ==
    [status : statuses, queryId : qids, data : datas, metadata : metadatas]
PollPayloadSet(completions, counts) ==
    [completionStatus : completions, rowCount : counts]
RowsPayloadSet(datas, returned) ==
    [data : datas, returnedRows : returned]

(***************************************************************************)
(* run_query: the pure steps                                               *)
(***************************************************************************)
\* x or y on optional strings ("" and None are falsy)
PyOr(x, y) == IF IsSome(x) /\ Get(x) # "" THEN x ELSE y
\* not x
PyNot(x) == ~(IsSome(x) /\ Get(x) # "")

\* line 80 without the fallback to the top-level queryId
QueryIdOf_StatusOnly(submit_payload, status_obj) == status_obj.queryId
\* line 80
QueryIdOf(submit_payload, status_obj) == PyOr(status_obj.queryId, submit_payload.queryId)
\* line 86: submit_payload.get("data", []) or [];  line 135 likewise
RowsOf(payload) == IF IsSome(payload.data) THEN Get(payload.data) ELSE <<>>
\* line 87 dropping the metadata of the submission
MetadataOf_Dropped(submit_payload) == <<>>
\* line 87
MetadataOf(submit_payload) ==
    IF IsSome(submit_payload.metadata) THEN Get(submit_payload.metadata) ELSE <<>>
\* line 136 counting the rows received instead of reading returnedRows
ReturnedRows_Counted(chunk, chunk_rows) == Len(chunk_rows)
\* line 136: int(chunk.get("returnedRows", len(chunk_rows)))
ReturnedRows(chunk, chunk_rows) ==
    IF IsSome(chunk.returnedRows) THEN Get(chunk.returnedRows) ELSE Len(chunk_rows)
\* line 93 with "Finished" as the only terminal status
PollLoopCond_FinishedOnly(c) == c # Some("Finished")
\* line 93: while completion not in ["Finished", "ResultsProduced"]
PollLoopCond(c) == c \notin {Some("Finished"), Some("ResultsProduced")}
\* line 115 fetching once more when the rows collected already number rowCount
PaginateCond_Inclusive(r, n) == Len(r) <= n
\* line 115: while len(rows) < total_row_count
PaginateCond(r, n) == Len(r) < n
\* line 142 putting the page in front of the rows collected so far
Extend_InFront(r, chunk_rows) == chunk_rows \o r
\* line 142: rows.extend(chunk_rows)
Extend(r, chunk_rows) == r \o chunk_rows

\* the 'data' of the returned dictionary is a list or a str
DataList(l) == [type |-> "list", list |-> l, str |-> ""]
DataStr(x) == [type |-> "str", list |-> <<>>, str |-> x]
\* lines 147-150
ReturnValue(r, m) == [data |-> DataList(r), metadata |-> m]

MissingQueryId == Exception3(500, "MissingQueryId", RawText("Query ID not returned by the API."))
MissingRows == Exception3(500, "MissingRows", RawText("Expected rows to be returned, but received 0."))

\* the requests run_query sends
SubmitRequest == [kind |-> "submit", query_id |-> Absent, offset |-> 0, rowLimit |-> 0]
PollRequest(q) == [kind |-> "poll", query_id |-> q, offset |-> 0, rowLimit |-> 0]
\* lines 119-123 asking for the first page every time
RowsRequest_FromZero(q, off, lim) == [kind |-> "rows", query_id |-> q, offset |-> 0, rowLimit |-> lim]
\* lines 119-123: the parameters of the row fetch
RowsRequest(q, off, lim) == [kind |-> "rows", query_id |-> q, offset |-> off, rowLimit |-> lim]

(***************************************************************************)
(* run_query: one invocation, from the submit request on                   *)
(***************************************************************************)
VARIABLES
    pc,               \* "submit" | "poll" | "rows": the request run_query sends next;
                      \* "returned" | "failed": how it ended
    pagination_batch_size,   \* argument of run_query
    query_id,         \* locals of run_query
    rows,
    metadata,
    completion,
    total_row_count,
    result,           \* the returned dictionary, once returned
    error,            \* the exception raised, once failed
    requests,         \* history: the requests sent, in order
    last,             \* history: status line and text of the last response
    sub,              \* history: the payload of the 2xx submission response
    last_poll,        \* history: the payload of the last 2xx poll response
    last_chunk,       \* history: the payload of the last 2xx row-fetch response
    fetched           \* history: the rows of the 2xx row-fetch responses, in fetch order

locals == <<query_id, rows, metadata, completion, total_row_count>>
qvars == <<pc, pagination_batch_size, query_id, rows, metadata, completion,
           total_row_count, result, error, requests, last, sub, last_poll,
           last_chunk, fetched>>

NoResponse == [status_code |-> 0, reason |-> "", text |-> RawText("")]
StatusLine(response) ==
    [status_code |-> response.status_code, reason |-> response.reason, text |-> response.text]

\* run_query entered with page size n, credentials resolved (lines 57-69 done)
QInit(n) ==
    /\ pc = "submit"
    /\ pagination_batch_size = n
    /\ query_id = Absent
    /\ rows = <<>>
    /\ metadata = <<>>
    /\ completion = Absent
    /\ total_row_count = 0
    /\ result = Absent
    /\ error = NoException
    /\ requests = <<>>
    /\ last = NoResponse
    /\ sub = Absent
    /\ last_poll = Absent
    /\ last_chunk = Absent
    /\ fetched = <<>>

Count(kind) == Cardinality({i \in 1..Len(requests) : requests[i].kind = kind})

\* raise exc: the invocation ends
Raise(exc) == pc' = "failed" /\ error' = exc /\ result' = result
\* lines 146-150
Return(r, m) == pc' = "returned" /\ result' = Some(ReturnValue(r, m)) /\ error' = error
\* line 115 never entering the loop: return what has been collected
Paginate_ReturnAtOnce(r, n, m) == Return(r, m)
\* line 115 evaluated with rows r and total_row_count n: fetch, or fall out and return
Paginate(r, n, m) ==
    IF PaginateCond(r, n)
    THEN pc' = "rows" /\ result' = result /\ error' = error
    ELSE Return(r, m)
\* line 93 skipped: straight on to line 115 whatever the completion status
PollOrPaginate_NoWait(c, r, n, m) == Paginate(r, n, m)
\* line 93 evaluated with completion c: poll, or go on to line 115
PollOrPaginate(c, r, n, m) ==
    IF PollLoopCond(c)
    THEN pc' = "poll" /\ result' = result /\ error' = error
    ELSE Paginate(r, n, m)

\* lines 71-93: POST the query, take the response in
Submit(responses) ==
    /\ pc = "submit"
    /\ \E submit_response \in responses :
          LET exc == HandleErrorResponse(submit_response)
          IN  /\ requests' = Append(requests, SubmitRequest)
              /\ last' = StatusLine(submit_response)
              /\ UNCHANGED <<pagination_batch_size, last_poll, last_chunk, fetched>>
              /\ IF exc # NoException
                 THEN Raise(exc) /\ UNCHANGED <<locals, sub>>
                 ELSE IF ~IsSome(submit_response.json)
                 THEN Raise(JSONDecodeError) /\ UNCHANGED <<locals, sub>>
                 ELSE LET submit_payload == Get(submit_response.json)
                          status_obj == IF IsSome(submit_payload.status)
                                        THEN Get(submit_payload.status)
                                        ELSE EmptyStatusObject
                          qid == QueryIdOf(submit_payload, status_obj)
                          r == RowsOf(submit_payload)
                          m == MetadataOf(submit_payload)
                          c == status_obj.completionStatus
                      IN  /\ sub' = Some(submit_payload)
                          /\ IF PyNot(qid)
                             THEN Raise(MissingQueryId) /\ UNCHANGED locals
                             ELSE /\ query_id' = qid
                                  /\ rows' = r
                                  /\ metadata' = m
                                  /\ completion' = c
                                  /\ IF ~IsSome(status_obj.rowCount)
                                     THEN Raise(TypeError) /\ UNCHANGED total_row_count
                                     ELSE /\ total_row_count' = Get(status_obj.rowCount)
                                          /\ PollOrPaginate(c, r, total_row_count', m)

\* lines 94-112 and the loop test of line 93: GET the status, take the response in
Poll(responses) ==
    /\ pc = "poll"
    /\ Count("poll") < MaxPolls
    /\ \E poll_response \in responses :
          LET exc == HandleErrorResponse(poll_response)
          IN  /\ requests' = Append(requests, PollRequest(query_id))
              /\ last' = StatusLine(poll_response)
              /\ UNCHANGED <<pagination_batch_size, query_id, rows, metadata, sub,
                             last_chunk, fetched>>
              /\ IF exc # NoException
                 THEN Raise(exc) /\ UNCHANGED <<completion, total_row_count, last_poll>>
                 ELSE IF ~IsSome(poll_response.json)
                 THEN Raise(JSONDecodeError)
                      /\ UNCHANGED <<completion, total_row_count, last_poll>>
                 ELSE LET poll_payload == Get(poll_response.json)
                          c == poll_payload.completionStatus
                      IN  /\ last_poll' = Some(poll_payload)
                          /\ completion' = c
                          /\ IF ~IsSome(poll_payload.rowCount)
                             THEN Raise(TypeError) /\ UNCHANGED total_row_count
                             ELSE /\ total_row_count' = Get(poll_payload.rowCount)
                                  /\ PollOrPaginate(c, rows, total_row_count', metadata)

\* lines 116-144 and the loop test of line 115: GET a page of rows, take it in
FetchRows(responses) ==
    /\ pc = "rows"
    /\ Count("rows") < MaxFetches
    /\ \E rows_response \in responses :
          LET exc == HandleErrorResponse(rows_response)
          IN  /\ requests' = Append(requests,
                                    RowsRequest(query_id, Len(rows), pagination_batch_size))
              /\ last' = StatusLine(rows_response)
              /\ UNCHANGED <<pagination_batch_size, query_id, metadata, completion,
                             total_row_count, sub, last_poll>>
              /\ IF exc # NoException
                 THEN Raise(exc) /\ UNCHANGED <<rows, last_chunk, fetched>>
                 ELSE IF ~IsSome(rows_response.json)
                 THEN Raise(JSONDecodeError) /\ UNCHANGED <<rows, last_chunk, fetched>>
                 ELSE LET chunk == Get(rows_response.json)
                          chunk_rows == RowsOf(chunk)
                          returned_rows == ReturnedRows(chunk, chunk_rows)
                      IN  /\ last_chunk' = Some(chunk)
                          /\ fetched' = fetched \o chunk_rows
                          /\ IF returned_rows = 0
                             THEN Raise(MissingRows) /\ UNCHANGED rows
                             ELSE /\ rows' = Extend(rows, chunk_rows)
                                  /\ Paginate(rows', total_row_count, metadata)

(***************************************************************************)
(* The service of specification Spec: any status, any payload within the   *)
(* bounds.                                                                 *)
(***************************************************************************)
RowValues == {"a", "b"}
QueryErrorBodies ==
    { NotJson,
      Dumps(JList(<<JObj(<<Field("message", Dumps(Details))>>)>>)) }
\* the submission is answered with any of these, a poll or a row fetch with 200
\* or 304 and, when 304, the structured error body
SubmitStatusCodes == {200, 201, 304, 500}
QueryStatusCodes == {200, 304}
StructuredErrorBodies == { Dumps(JList(<<JObj(<<Field("message", Dumps(Details))>>)>>)) }
CompletionValues == Optional({"Running", "ResultsProduced", "Finished"})
RowCountValues == Optional(0..MaxRowCount)

SubmitResponses ==
    Responses(SubmitStatusCodes, QueryErrorBodies,
              SubmitPayloadSet(
                  {Absent} \cup {Some(st) : st \in StatusObjects({Absent, Some(""), Some("q1")},
                                                                CompletionValues, RowCountValues)},
                  {Absent, Some("q2")},
                  Optional(SeqsUpTo(RowValues, MaxInline)),
                  {Absent, Some(<<"col1">>)}))
PollResponses ==
    Responses(QueryStatusCodes, StructuredErrorBodies,
              PollPayloadSet(CompletionValues, RowCountValues))
RowsResponses ==
    Responses(QueryStatusCodes, StructuredErrorBodies,
              RowsPayloadSet(Optional(SeqsUpTo(RowValues, PageSize)),
                             {Absent, Some(0), Some(PageSize)}))

(***************************************************************************)
(* OAuthSession (src/oauth.py): the credential store                       *)
(***************************************************************************)
\* line 190: timedelta(minutes=110)
ExpiryMinutes == 110

VARIABLES
    token,            \* self.token: Absent is None
    exp,              \* self.exp, in minutes on the clock: Absent is None
    instance_url,     \* self.instance_url: Absent is None
    now,              \* datetime.now(), in minutes
    flows,            \* history: the number of _run_oauth_flow calls started
    flow_cause,       \* history: why the last flow started: "missing" | "expired"
    returned          \* history: how the last get_token/get_instance_url call ended

avars == <<token, exp, instance_url, now, flows, flow_cause, returned>>

TokenValues == {"t1", "t2"}
UrlValues == {"u1", "u2"}
\* the JSON object of the token exchange response (line 179)
AuthInfos == [access_token : Optional(TokenValues), instance_url : Optional(UrlValues)]
\* _run_oauth_flow raises (lines 153, 176) or returns the response's JSON (179)
FlowOutcomes ==
    {[ok |-> FALSE, auth_info |-> [access_token |-> Absent, instance_url |-> Absent]]}
    \cup {[ok |-> TRUE, auth_info |-> a] : a \in AuthInfos}
\* minutes the browser round trip and the token exchange take
FlowDurations == {0, 1}
\* minutes that pass between two calls
TickSteps == {1, ExpiryMinutes}

NoCall == [method |-> "", path |-> "", raised |-> "", value |-> Absent]
ReturnedValue(method, path, v) == [method |-> method, path |-> path, raised |-> "", value |-> v]
RaisedIn(method, type) == [method |-> method, path |-> "flow", raised |-> type, value |-> Absent]

\* lines 99-103: a fresh OAuthSession
AInit ==
    /\ token = Absent
    /\ exp = Absent
    /\ instance_url = Absent
    /\ now = 0
    /\ flows = 0
    /\ flow_cause = ""
    /\ returned = NoCall

\* line 182 taking the expiry instant itself as expired
Expired_AtInstant(e, n) == IsSome(e) /\ n >= Get(e)
\* line 182: self.exp is not None and datetime.now() > self.exp
Expired(e, n) == IsSome(e) /\ n > Get(e)

\* lines 181-193 called by get_token (line 196) or get_instance_url (198-200)
EnsureAccess(method) ==
    LET expired == Expired(exp, now)
        \* lines 183-184
        tok == IF expired THEN Absent ELSE token
    IN  IF IsSome(tok)
        THEN /\ UNCHANGED <<token, exp, instance_url, now, flows, flow_cause>>
             /\ returned' = ReturnedValue(method, "fast",
                                IF method = "get_token" THEN token ELSE instance_url)
        ELSE /\ flows < MaxFlows
             /\ flows' = flows + 1
             /\ flow_cause' = IF expired THEN "expired" ELSE "missing"
             /\ \E outcome \in FlowOutcomes, d \in FlowDurations :
                   /\ now + d <= MaxTime
                   /\ now' = now + d
                   /\ IF ~outcome.ok
                      THEN /\ token' = Absent /\ exp' = Absent
                           /\ UNCHANGED instance_url
                           /\ returned' = RaisedIn(method, "Exception")
                      ELSE IF ~IsSome(outcome.auth_info.access_token)
                      THEN /\ token' = Absent /\ exp' = Absent
                           /\ UNCHANGED instance_url
                           /\ returned' = RaisedIn(method, "KeyError")
                      ELSE /\ token' = outcome.auth_info.access_token
                           /\ exp' = Some(now' + ExpiryMinutes)
                           /\ IF ~IsSome(outcome.auth_info.instance_url)
                              THEN /\ UNCHANGED instance_url
                                   /\ returned' = RaisedIn(method, "KeyError")
                              ELSE /\ instance_url' = outcome.auth_info.instance_url
                                   /\ returned' = ReturnedValue(method, "flow",
                                          IF method = "get_token" THEN token'
                                          ELSE instance_url')

\* lines 195-196
GetToken == EnsureAccess("get_token")
\* lines 198-200
GetInstanceUrl == EnsureAccess("get_instance_url")
\* time passes between calls
Tick ==
    /\ \E d \in TickSteps : now + d <= MaxTime /\ now' = now + d
    /\ UNCHANGED <<token, exp, instance_url, flows, flow_cause, returned>>

(***************************************************************************)
(* OAuthSession._run_oauth_flow, step by step: the PKCE pair, the callback *)
(* listener, the token exchange                                            *)
(***************************************************************************)
VARIABLES
    fpc,              \* "idle": no call in progress; "listening": the listener serves,
                      \* nothing captured; "closing": captured, shutdown pending;
                      \* "stopped": listener thread ended; "exchange": POST sent
    caller,           \* the method that was called: "get_token" | "get_instance_url"
    entropy,          \* the number of secrets.token_bytes draws so far
    code_verifier,    \* locals of _run_oauth_flow
    code_challenge,
    browser_uri,      \* the authorization URL opened in the browser
    oauth_result,     \* server.oauth_result: Absent until do_GET sets it
    writes,           \* history: assignments to server.oauth_result in this flow
    reads,            \* history: reads of server.oauth_result in this flow
    posts,            \* history: the token-exchange POSTs sent, in order
    token_response,   \* history: the answer to this flow's POST, once received
    failure           \* history: the message of the Exception of line 153, if raised

fvars == <<fpc, caller, entropy, code_verifier, code_challenge, browser_uri,
           oauth_result, writes, reads, posts, token_response, failure>>

\* lines 85-88: the n-th draw of secrets.token_bytes(32), urlsafe-base64 encoded
Verifier(n) == [kind |-> "verifier", of |-> n]
\* lines 90-93: the encoded SHA-256 digest of the verifier
Challenge(v) == [kind |-> "challenge", of |-> v.of]
NoPkce == [kind |-> "", of |-> 0]
\* line 111 handing out one and the same pair in every flow
GeneratePkcePair_Fixed(n) == <<Verifier(1), Challenge(Verifier(1))>>
\* lines 83-95 at the n-th draw
GeneratePkcePair(n) == <<Verifier(n), Challenge(Verifier(n))>>

\* parse_qs of the callback's query, first value of each key
CallbackArgs ==
    [code : Optional({"c1"}), error : Optional({"access_denied"}),
     error_description : Optional({"user denied"})]
CallbackPaths == {"/callback", "/favicon.ico"}

NoCodeText == "OAuth authentication failed - no authorization code received"
\* lines 148-152 leaving the description out
AuthFailureMessage_ErrorOnly(args) ==
    <<NoCodeText>> \o (IF IsSome(args.error) THEN <<". Error: ", Get(args.error)>> ELSE <<>>)
\* lines 148-152: the parts of error_msg, in order
AuthFailureMessage(args) ==
    <<NoCodeText>>
    \o (IF IsSome(args.error)
        THEN <<". Error: ", Get(args.error)>>
             \o (IF IsSome(args.error_description)
                 THEN <<" - ", Get(args.error_description)>>
                 ELSE <<>>)
        ELSE <<>>)

\* lines 157-168: the form of the POST
TokenRequest(code, verifier, n) == [code |-> code, code_verifier |-> verifier, flow |-> n]
\* the answers of the token endpoint: status, and the JSON body if it is JSON
TokenStatusCodes == {200, 400, 500}
TokenResponses == [status_code : TokenStatusCodes, json : Optional(AuthInfos)]
NoTokenResponse == [status_code |-> 0, json |-> Absent]
\* line 176 raising from status 500 on
RaiseForStatus_From500(response) == response.status_code >= 500
\* line 176: raise_for_status raises HTTPError for 4xx and 5xx
RaiseForStatus(response) == response.status_code >= 400

\* no flow has run
FIdle ==
    /\ fpc = "idle"
    /\ caller = ""
    /\ entropy = 0
    /\ code_verifier = NoPkce
    /\ code_challenge = NoPkce
    /\ browser_uri = NoPkce
    /\ oauth_result = Absent
    /\ writes = 0
    /\ reads = 0
    /\ posts = <<>>
    /\ token_response = NoTokenResponse
    /\ failure = <<>>

(***************************************************************************)
(* OAuthSession.ensure_access entered by several threads, line by line     *)
(***************************************************************************)
Callers == {"c1", "c2"}

VARIABLES
    cpc,              \* per caller: "idle", or the line of ensure_access it is at:
                      \* "l183" "l184" "l186" "l187" "flow" "l189" "l190" "l191" "l193"
    auth_info_of,     \* per caller: the local auth_info of line 187
    alone             \* history, per caller: no other caller was inside
                      \* ensure_access since this one entered

cvars == <<cpc, auth_info_of, alone>>

NoAuthInfo == [access_token |-> Absent, instance_url |-> Absent]
CIdle ==
    /\ cpc = [c \in Callers |-> "idle"]
    /\ auth_info_of = [c \in Callers |-> NoAuthInfo]
    /\ alone = [c \in Callers |-> TRUE]

\* line 186 taking the token as missing whatever the store holds
TokenMissing_Always(t) == TRUE
\* line 186: self.token is None
TokenMissing(t) == ~IsSome(t)

\* caller c moves to line l; every caller inside ensure_access that has
\* company from now on is no longer alone
Goto(c, l) ==
    /\ cpc' = [cpc EXCEPT ![c] = l]
    /\ alone' = [d \in Callers |->
                    IF d = c /\ cpc[c] = "idle"
                    THEN \A e \in Callers \ {c} : cpc[e] = "idle"
                    ELSE alone[d] /\ (d # c => cpc[d] = "idle" \/ l = "idle")]

(***************************************************************************)
(* run_query, lines 57-61: the base URL and the token are taken from the   *)
(* OAuthSession by two calls                                               *)
(***************************************************************************)
VARIABLES
    rpc,              \* "l57" | "l58": the line run_query is at; "l71": credentials
                      \* taken, about to submit; "failed": a call raised
    base_url,         \* locals of run_query: base_url, and token (the bearer token)
    bearer_token,
    token_from,       \* history: the number of the flow whose exchange response
                      \* delivered the stored token; 0 if none is stored
    url_from,         \* history: likewise for the stored instance_url
    base_url_from,    \* history: likewise for run_query's base_url
    bearer_from       \* history: likewise for run_query's token

rvars == <<rpc, base_url, bearer_token, token_from, url_from, base_url_from, bearer_from>>

\* run_query entered on a fresh OAuthSession
RIdle ==
    /\ rpc = "l57"
    /\ base_url = Absent
    /\ bearer_token = Absent
    /\ token_from = 0
    /\ url_from = 0
    /\ base_url_from = 0
    /\ bearer_from = 0

\* which exchange the store's fields come from, after a call of ensure_access:
\* line 189 assigns the token of a flow that returned one, line 191 the
\* instance_url of a flow that returned both, lines 183-184 clear the token
Provenance ==
    /\ token_from' = IF ~IsSome(token') THEN 0
                     ELSE IF flows' # flows THEN flows'
                     ELSE token_from
    /\ url_from' = IF flows' # flows /\ returned'.raised = "" THEN flows'
                   ELSE url_from

vars == <<qvars, hvars, avars, fvars, cvars, rvars>>

Init == QInit(PageSize) /\ HIdle /\ AInit /\ FIdle /\ CIdle /\ RIdle

Next ==
    \/ Submit(SubmitResponses) /\ UNCHANGED <<hvars, avars, fvars, cvars, rvars>>
    \/ Poll(PollResponses) /\ UNCHANGED <<hvars, avars, fvars, cvars, rvars>>
    \/ FetchRows(RowsResponses) /\ UNCHANGED <<hvars, avars, fvars, cvars, rvars>>

Spec == Init /\ [][Next]_vars

(***************************************************************************)
(* Specification SpecHandle: _handle_error_response applied to one          *)
(* response, any status with any body.                                     *)
(***************************************************************************)
InitHandle == QInit(PageSize) /\ HInit /\ AInit /\ FIdle /\ CIdle /\ RIdle

NextHandle == HandleError /\ UNCHANGED <<qvars, avars, fvars, cvars, rvars>>

SpecHandle == InitHandle /\ [][NextHandle]_vars

(***************************************************************************)
(* Specification SpecE2E: run_query against a service that holds a result  *)
(* of five rows under query id q1.  The service may answer each request    *)
(* with an error, report the query Running or done, report the full or a   *)
(* partial row count, and serve any slice of the result as a page.         *)
(***************************************************************************)
ScenarioRows == <<"r1", "r2", "r3", "r4", "r5">>
ScenarioRowCount == Len(ScenarioRows)
ScenarioPageSizes == {PageSize, ScenarioRowCount}
\* the contiguous slices of the result, the empty one included
Slices ==
    {<<>>} \cup {SubSeq(ScenarioRows, i, j) : i \in 1..ScenarioRowCount, j \in 1..ScenarioRowCount}

ScenarioSubmitResponses ==
    Responses({200, 201, 500}, StructuredErrorBodies,
              SubmitPayloadSet(
                  {Some(st) : st \in StatusObjects({Some("q1")},
                                                   {Some("Running"), Some("Finished")},
                                                   {Some(0), Some(ScenarioRowCount)})},
                  {Absent},
                  {Absent, Some(<<>>)},
                  {Absent, Some(<<"col1">>)}))
ScenarioPollResponses ==
    Responses(QueryStatusCodes, StructuredErrorBodies,
              PollPayloadSet({Some("Running"), Some("ResultsProduced"), Some("Finished")},
                             {Some(ScenarioRowCount - 1), Some(ScenarioRowCount)}))
ScenarioRowsResponses ==
    Responses(QueryStatusCodes, StructuredErrorBodies,
              RowsPayloadSet(Optional(Slices),
                             {Absent, Some(0), Some(ScenarioRowCount)}))

InitE2E == (\E n \in ScenarioPageSizes : QInit(n)) /\ HIdle /\ AInit /\ FIdle /\ CIdle /\ RIdle
NextE2E ==
    \/ Submit(ScenarioSubmitResponses) /\ UNCHANGED <<hvars, avars, fvars, cvars, rvars>>
    \/ Poll(ScenarioPollResponses) /\ UNCHANGED <<hvars, avars, fvars, cvars, rvars>>
    \/ FetchRows(ScenarioRowsResponses) /\ UNCHANGED <<hvars, avars, fvars, cvars, rvars>>
SpecE2E == InitE2E /\ [][NextE2E]_vars

(***************************************************************************)
(* Specification SpecAuth: get_token and get_instance_url called one after *)
(* the other on one OAuthSession while time passes.                        *)
(***************************************************************************)
InitAuth == QInit(PageSize) /\ HIdle /\ AInit /\ FIdle /\ CIdle /\ RIdle
NextAuth ==
    \/ GetToken /\ UNCHANGED <<qvars, hvars, fvars, cvars, rvars>>
    \/ GetInstanceUrl /\ UNCHANGED <<qvars, hvars, fvars, cvars, rvars>>
    \/ Tick /\ UNCHANGED <<qvars, hvars, fvars, cvars, rvars>>
SpecAuth == InitAuth /\ [][NextAuth]_vars

(***************************************************************************)
(* Specification SpecFlow: get_token and get_instance_url called one after *)
(* the other, each authorization flow followed step by step.               *)
(***************************************************************************)
\* lines 181-187 and 105-141: the call up to the wait for the listener thread
BeginCall(method) ==
    /\ fpc = "idle"
    /\ caller' = method
    /\ UNCHANGED <<now, instance_url, posts>>
    /\ LET expired == Expired(exp, now)
           tok == IF expired THEN Absent ELSE token
       IN  IF IsSome(tok)
           THEN /\ returned' = ReturnedValue(method, "fast",
                                   IF method = "get_token" THEN token ELSE instance_url)
                /\ UNCHANGED <<token, exp, flows, flow_cause, fpc, entropy, code_verifier,
                               code_challenge, browser_uri, oauth_result, writes, reads,
                               token_response, failure>>
           ELSE /\ flows < MaxFlows
                /\ flows' = flows + 1
                /\ flow_cause' = IF expired THEN "expired" ELSE "missing"
                /\ token' = tok
                /\ exp' = IF expired THEN Absent ELSE exp
                /\ entropy' = entropy + 1
                /\ code_verifier' = GeneratePkcePair(entropy')[1]
                /\ code_challenge' = GeneratePkcePair(entropy')[2]
                /\ browser_uri' = code_challenge'
                /\ oauth_result' = Absent
                /\ writes' = 0
                /\ reads' = 0
                /\ token_response' = NoTokenResponse
                /\ failure' = <<>>
                /\ fpc' = "listening"
                /\ UNCHANGED returned

\* lines 60-80: the listener serves one GET request
DoGet ==
    /\ fpc \in {"listening", "closing"}
    /\ writes < MaxCallbacks
    /\ \E path \in CallbackPaths, args \in CallbackArgs :
          IF path # "/callback"
          THEN UNCHANGED <<oauth_result, writes, fpc>>
          ELSE /\ oauth_result' = Some(args)
               /\ writes' = writes + 1
               /\ fpc' = "closing"
    /\ UNCHANGED <<avars, caller, entropy, code_verifier, code_challenge, browser_uri,
                   reads, posts, token_response, failure>>

\* lines 51-56: the delayed server.shutdown() ends serve_forever
ListenerStops ==
    /\ fpc = "closing"
    /\ fpc' = "stopped"
    /\ UNCHANGED <<avars, caller, entropy, code_verifier, code_challenge, browser_uri,
                   oauth_result, writes, reads, posts, token_response, failure>>

\* lines 143-169: the thread has ended; read the slot, fail or send the POST
ReadResult ==
    /\ fpc = "stopped"
    /\ reads' = reads + 1
    /\ LET oauth_result_args == Get(oauth_result)
       IN  IF ~IsSome(oauth_result_args.code)
           THEN /\ failure' = AuthFailureMessage(oauth_result_args)
                /\ returned' = RaisedIn(caller, "Exception")
                /\ fpc' = "idle"
                /\ UNCHANGED posts
           ELSE /\ posts' = Append(posts, TokenRequest(Get(oauth_result_args.code),
                                                        code_verifier, flows))
                /\ fpc' = "exchange"
                /\ UNCHANGED <<failure, returned>>
    /\ UNCHANGED <<token, exp, instance_url, now, flows, flow_cause, caller, entropy,
                   code_verifier, code_challenge, browser_uri, oauth_result, writes,
                   token_response>>

\* lines 171-179 and 189-193: the answer to the POST, the credential stored
TokenExchange ==
    /\ fpc = "exchange"
    /\ fpc' = "idle"
    /\ \E response \in TokenResponses :
          /\ token_response' = response
          /\ IF RaiseForStatus(response)
             THEN /\ returned' = RaisedIn(caller, "HTTPError")
                  /\ UNCHANGED <<token, exp, instance_url>>
             ELSE IF ~IsSome(response.json)
             THEN /\ returned' = RaisedIn(caller, "JSONDecodeError")
                  /\ UNCHANGED <<token, exp, instance_url>>
             ELSE LET auth_info == Get(response.json)
                  IN  IF ~IsSome(auth_info.access_token)
                      THEN /\ returned' = RaisedIn(caller, "KeyError")
                           /\ UNCHANGED <<token, exp, instance_url>>
                      ELSE /\ token' = auth_info.access_token
                           /\ exp' = Some(now + ExpiryMinutes)
                           /\ IF ~IsSome(auth_info.instance_url)
                              THEN /\ returned' = RaisedIn(caller, "KeyError")
                                   /\ UNCHANGED instance_url
                              ELSE /\ instance_url' = auth_info.instance_url
                                   /\ returned' = ReturnedValue(caller, "flow",
                                          IF caller = "get_token" THEN token'
                                          ELSE instance_url')
    /\ UNCHANGED <<now, flows, flow_cause, caller, entropy, code_verifier, code_challenge,
                   browser_uri, oauth_result, writes, reads, posts, failure>>

\* the credential of the last flow expires
Expire ==
    /\ fpc = "idle"
    /\ IsSome(exp)
    /\ now <= Get(exp)
    /\ Get(exp) + 1 <= MaxTime
    /\ now' = Get(exp) + 1
    /\ UNCHANGED <<token, exp, instance_url, flows, flow_cause, returned, fvars>>

InitFlow == QInit(PageSize) /\ HIdle /\ AInit /\ FIdle /\ CIdle /\ RIdle
NextFlow ==
    \/ BeginCall("get_token") /\ UNCHANGED <<qvars, hvars, cvars, rvars>>
    \/ BeginCall("get_instance_url") /\ UNCHANGED <<qvars, hvars, cvars, rvars>>
    \/ DoGet /\ UNCHANGED <<qvars, hvars, cvars, rvars>>
    \/ ListenerStops /\ UNCHANGED <<qvars, hvars, cvars, rvars>>
    \/ ReadResult /\ UNCHANGED <<qvars, hvars, cvars, rvars>>
    \/ TokenExchange /\ UNCHANGED <<qvars, hvars, cvars, rvars>>
    \/ Expire /\ UNCHANGED <<qvars, hvars, cvars, rvars>>
SpecFlow == InitFlow /\ [][NextFlow]_vars

(***************************************************************************)
(* Specification SpecConc: two threads call get_token on one OAuthSession  *)
(* and are interleaved between the lines of ensure_access.                 *)
(***************************************************************************)
\* line 182: the expiry test
CheckExpiry(c) ==
    /\ cpc[c] = "idle"
    /\ Goto(c, IF Expired(exp, now) THEN "l183" ELSE "l186")
    /\ UNCHANGED <<avars, auth_info_of>>
\* line 183
ClearExp(c) ==
    /\ cpc[c] = "l183"
    /\ exp' = Absent
    /\ Goto(c, "l184")
    /\ UNCHANGED <<token, instance_url, now, flows, flow_cause, returned, auth_info_of>>
\* line 184
ClearToken(c) ==
    /\ cpc[c] = "l184"
    /\ token' = Absent
    /\ Goto(c, "l186")
    /\ UNCHANGED <<exp, instance_url, now, flows, flow_cause, returned, auth_info_of>>
\* line 186
CheckToken(c) ==
    /\ cpc[c] = "l186"
    /\ Goto(c, IF TokenMissing(token) THEN "l187" ELSE "l193")
    /\ UNCHANGED <<avars, auth_info_of>>
\* line 187 up to the wait of line 142: the flow is started.  While the
\* listener of another flow holds the port, binding it (line 134) fails
\* with OSError or succeeds, depending on the platform.
StartFlow(c) ==
    /\ cpc[c] = "l187"
    /\ flows < MaxFlows
    /\ flows' = flows + 1
    /\ flow_cause' = "missing"
    /\ \/ /\ Goto(c, "flow")
          /\ UNCHANGED returned
       \/ /\ \E d \in Callers \ {c} : cpc[d] = "flow"
          /\ Goto(c, "idle")
          /\ returned' = RaisedIn(c, "OSError")
    /\ UNCHANGED <<token, exp, instance_url, now, auth_info_of>>
\* lines 143-179: the flow raises or returns the JSON of the exchange
FlowReturns(c) ==
    /\ cpc[c] = "flow"
    /\ \E outcome \in FlowOutcomes :
          IF ~outcome.ok
          THEN /\ Goto(c, "idle")
               /\ returned' = RaisedIn(c, "Exception")
               /\ UNCHANGED auth_info_of
          ELSE /\ Goto(c, "l189")
               /\ auth_info_of' = [auth_info_of EXCEPT ![c] = outcome.auth_info]
               /\ UNCHANGED returned
    /\ UNCHANGED <<token, exp, instance_url, now, flows, flow_cause>>
\* line 189
StoreToken(c) ==
    /\ cpc[c] = "l189"
    /\ IF ~IsSome(auth_info_of[c].access_token)
       THEN /\ Goto(c, "idle")
            /\ returned' = RaisedIn(c, "KeyError")
            /\ UNCHANGED token
       ELSE /\ Goto(c, "l190")
            /\ token' = auth_info_of[c].access_token
            /\ UNCHANGED returned
    /\ UNCHANGED <<exp, instance_url, now, flows, flow_cause, auth_info_of>>
\* line 190
StoreExp(c) ==
    /\ cpc[c] = "l190"
    /\ exp' = Some(now + ExpiryMinutes)
    /\ Goto(c, "l191")
    /\ UNCHANGED <<token, instance_url, now, flows, flow_cause, returned, auth_info_of>>
\* line 191
StoreUrl(c) ==
    /\ cpc[c] = "l191"
    /\ IF ~IsSome(auth_info_of[c].instance_url)
       THEN /\ Goto(c, "idle")
            /\ returned' = RaisedIn(c, "KeyError")
            /\ UNCHANGED instance_url
       ELSE /\ Goto(c, "l193")
            /\ instance_url' = auth_info_of[c].instance_url
            /\ UNCHANGED returned
    /\ UNCHANGED <<token, exp, now, flows, flow_cause, auth_info_of>>
\* line 193: return self.token, as the store holds it now
ReturnToken(c) ==
    /\ cpc[c] = "l193"
    /\ returned' = ReturnedValue(c, "", token)
    /\ Goto(c, "idle")
    /\ UNCHANGED <<token, exp, instance_url, now, flows, flow_cause, auth_info_of>>

InitConc == QInit(PageSize) /\ HIdle /\ AInit /\ FIdle /\ CIdle /\ RIdle
NextConc ==
    \/ \E c \in Callers : CheckExpiry(c) /\ UNCHANGED <<qvars, hvars, fvars, rvars>>
    \/ \E c \in Callers : ClearExp(c) /\ UNCHANGED <<qvars, hvars, fvars, rvars>>
    \/ \E c \in Callers : ClearToken(c) /\ UNCHANGED <<qvars, hvars, fvars, rvars>>
    \/ \E c \in Callers : CheckToken(c) /\ UNCHANGED <<qvars, hvars, fvars, rvars>>
    \/ \E c \in Callers : StartFlow(c) /\ UNCHANGED <<qvars, hvars, fvars, rvars>>
    \/ \E c \in Callers : FlowReturns(c) /\ UNCHANGED <<qvars, hvars, fvars, rvars>>
    \/ \E c \in Callers : StoreToken(c) /\ UNCHANGED <<qvars, hvars, fvars, rvars>>
    \/ \E c \in Callers : StoreExp(c) /\ UNCHANGED <<qvars, hvars, fvars, rvars>>
    \/ \E c \in Callers : StoreUrl(c) /\ UNCHANGED <<qvars, hvars, fvars, rvars>>
    \/ \E c \in Callers : ReturnToken(c) /\ UNCHANGED <<qvars, hvars, fvars, rvars>>
    \/ Expire /\ UNCHANGED <<qvars, hvars, cvars, rvars>>
SpecConc == InitConc /\ [][NextConc]_vars

(***************************************************************************)
(* Specification SpecRun: run_query invocations, one after the other, take *)
(* their credentials from one OAuthSession while its credential expires.   *)
(***************************************************************************)
\* line 57: base_url = oauth_session.get_instance_url()
RunQueryInstanceUrl ==
    /\ rpc = "l57"
    /\ GetInstanceUrl
    /\ Provenance
    /\ UNCHANGED <<bearer_token, bearer_from>>
    /\ IF returned'.raised # ""
       THEN rpc' = "failed" /\ UNCHANGED <<base_url, base_url_from>>
       ELSE /\ rpc' = "l58"
            /\ base_url' = returned'.value
            /\ base_url_from' = url_from'

\* lines 58-61: token = oauth_session.get_token(); the headers and url_base
RunQueryToken ==
    /\ rpc = "l58"
    /\ GetToken
    /\ Provenance
    /\ UNCHANGED <<base_url, base_url_from>>
    /\ IF returned'.raised # ""
       THEN rpc' = "failed" /\ UNCHANGED <<bearer_token, bearer_from>>
       ELSE /\ bearer_token' = returned'.value
            /\ bearer_from' = token_from'
            \* line 61: None + str raises TypeError
            /\ rpc' = IF IsSome(base_url) THEN "l71" ELSE "failed"

\* the invocation is over; run_query is called again
NextInvocation ==
    /\ rpc \in {"l71", "failed"}
    /\ rpc' = "l57"
    /\ base_url' = Absent
    /\ bearer_token' = Absent
    /\ base_url_from' = 0
    /\ bearer_from' = 0
    /\ UNCHANGED <<avars, token_from, url_from>>

InitRun == QInit(PageSize) /\ HIdle /\ AInit /\ FIdle /\ CIdle /\ RIdle
NextRun ==
    \/ RunQueryInstanceUrl /\ UNCHANGED <<qvars, hvars, fvars, cvars>>
    \/ RunQueryToken /\ UNCHANGED <<qvars, hvars, fvars, cvars>>
    \/ NextInvocation /\ UNCHANGED <<qvars, hvars, fvars, cvars>>
    \/ Expire /\ UNCHANGED <<qvars, hvars, cvars, rvars>>
SpecRun == InitRun /\ [][NextRun]_vars

(***************************************************************************)
(* Claims about _handle_error_response (specification SpecHandle)          *)
(***************************************************************************)
\* the shape of a body, read off the text
BodyIsNonEmptyJsonList(text) ==
    text.t = "json" /\ text.a[1].t = "list" /\ Len(text.a[1].a) > 0
FirstElement(text) == text.a[1].a[1]
HasKey(obj, key) == obj.t = "obj" /\ \E i \in 1..Len(obj.a) : obj.a[i].s = key
ValueOf(obj, key) == obj.a[CHOOSE i \in 1..Len(obj.a) : obj.a[i].s = key].a[1]
\* the body is a list whose first element has a 'message' that is a string
\* holding JSON text
HasJsonMessage(text) ==
    /\ BodyIsNonEmptyJsonList(text)
    /\ HasKey(FirstElement(text), "message")
    /\ ValueOf(FirstElement(text), "message").t = "json"
NestedMessage(text) == ValueOf(FirstElement(text), "message")
\* the string is the JSON text of something in which v is written
Mentions(string, v) ==
    /\ string.t = "json"
    /\ \E i \in 1..Len(string.a[1].a) : string.a[1].a[i].a = <<v>>

\* the message the failure of a response with body `text` carries: the 'message'
\* string of the first list element, verbatim, when it decodes to a truthy JSON
\* value; the raw text otherwise
ExpectedMessage(text) ==
    IF HasJsonMessage(text)
       /\ NestedMessage(text).a[1].t \notin {"null", "false"}
       /\ NestedMessage(text).a[1] \notin {JNum("0"), RawText(""), JList(<<>>), JObj(<<>>)}
    THEN NestedMessage(text)
    ELSE text

HandledError == IsSome(h_raised) /\ h_response.status_code >= 300

\* C8 as stated: the nested message exactly when 'message' holds a JSON-encoded
\* object (then the failure message carries its primaryMessage and customerHint),
\* the raw body text for every other body; always the HTTP failure of the response
C8_AsStated ==
    HandledError =>
        LET exc == Get(h_raised)
            text == h_response.text
        IN  /\ exc.type = "Exception"
            /\ exc.status = h_response.status_code
            /\ IF HasJsonMessage(text) /\ NestedMessage(text).a[1].t = "obj"
               THEN \A k \in {"primaryMessage", "customerHint"} :
                        HasKey(NestedMessage(text).a[1], k)
                            => Mentions(exc.message, ValueOf(NestedMessage(text).a[1], k))
               ELSE exc.message = text

\* C8 amended: for a response with status >= 300 the failure is
\* Exception(status, reason, message) of that response; message is the string of
\* the first list element's 'message' key, verbatim, when the body is a JSON list
\* whose first element is an object with a 'message' string that decodes to a
\* truthy JSON value (of any type), and the raw body text in every other case
C8_ErrorBodyMessage ==
    HandledError =>
        LET exc == Get(h_raised)
            text == h_response.text
        IN  /\ exc.type = "Exception"
            /\ exc.status = h_response.status_code
            /\ exc.reason = h_response.reason
            /\ exc.message = ExpectedMessage(text)

\* a structured body was handled and its nested message surfaced
C8_Witness ==
    /\ HandledError
    /\ h_response.text = Dumps(JList(<<JObj(<<Field("message", Dumps(Details))>>)>>))
    /\ Get(h_raised).message = Dumps(Details)

(***************************************************************************)
(* Claims about run_query (specification Spec)                             *)
(***************************************************************************)
\* what the 2xx submission response carried
SubStatus ==
    IF IsSome(sub) /\ IsSome(Get(sub).status) THEN Get(Get(sub).status) ELSE EmptyStatusObject
Inline == IF IsSome(sub) /\ IsSome(Get(sub).data) THEN Get(Get(sub).data) ELSE <<>>
Falsy(q) == q \in {Absent, Some("")}
SubLacksQueryId == IsSome(sub) /\ Falsy(SubStatus.queryId) /\ Falsy(Get(sub).queryId)
\* the row count the service reported last: by the last poll, else at submission
LatestRowCount == IF IsSome(last_poll) THEN Get(last_poll).rowCount ELSE SubStatus.rowCount
Terminal == {Some("Finished"), Some("ResultsProduced")}
Returned == pc = "returned" /\ IsSome(result)
Data == Get(result).data
\* the last response was a 2xx answer to a request of this kind
LastWas2xx(kind) ==
    /\ requests # <<>>
    /\ requests[Len(requests)].kind = kind
    /\ last.status_code < 300

\* C1 as stated: a successful invocation that fetched two or more pages returns
\* exactly as many rows as the row count reported last, the inline rows followed
\* by the pages in fetch order
C1_AsStated ==
    (Returned /\ Count("rows") >= 2) =>
        /\ Data = DataList(Inline \o fetched)
        /\ LatestRowCount = Some(Len(Data.list))

\* C1 amended: a successful invocation that fetched at least one page returns
\* the inline rows followed by the pages in fetch order, unchanged; the number
\* of rows is at least the row count reported last, and it was below that count
\* before the last page came in (it exceeds the count when the last page carried
\* more rows than were outstanding)
C1_RowsInOrder ==
    (Returned /\ Count("rows") >= 1) =>
        /\ Data = DataList(Inline \o fetched)
        /\ IsSome(LatestRowCount) /\ IsSome(last_chunk)
        /\ Len(Data.list) >= Get(LatestRowCount)
        /\ Len(Data.list) - Len(RowsOf(Get(last_chunk))) < Get(LatestRowCount)

\* two pages of one row each were fetched after a poll and returned in order
C1_Witness ==
    /\ Returned /\ Count("rows") = 2 /\ Count("poll") = 1
    /\ Inline = <<>> /\ fetched = <<"b", "a">>
    /\ requests[Len(requests)].offset = 1
    /\ LatestRowCount = Some(2) /\ Data.list = <<"b", "a">>

\* C2: a 2xx submission that reports Finished or ResultsProduced and a rowCount
\* equal to the number of inline rows is the only HTTP exchange: no poll and no
\* row fetch follows
C2_InlineResultNoFurtherRequest ==
    (/\ IsSome(sub)
     /\ SubStatus.completionStatus \in Terminal
     /\ SubStatus.rowCount = Some(Len(Inline))) =>
        /\ requests = <<SubmitRequest>>
        /\ pc \in {"returned", "failed"}

\* a submission with one inline row, ResultsProduced and rowCount 1 was returned
C2_Witness ==
    /\ Returned
    /\ SubStatus.completionStatus = Some("ResultsProduced")
    /\ SubStatus.rowCount = Some(1) /\ Len(Inline) = 1
    /\ Data.list = Inline

\* the body of a non-2xx response names a query id
TextHasQueryId(text) ==
    /\ text.t = "json"
    /\ \/ HasKey(text.a[1], "queryId")
       \/ HasKey(text.a[1], "status") /\ HasKey(ValueOf(text.a[1], "status"), "queryId")
\* the submission response, of whatever status, carries no query id
SubmissionLacksQueryId ==
    /\ Count("submit") = 1
    /\ \/ SubLacksQueryId
       \/ Len(requests) = 1 /\ last.text # PayloadText /\ ~TextHasQueryId(last.text)

\* C3 as stated: a submission response without a query id fails with
\* MissingQueryId, whatever its HTTP status
C3_AsStated ==
    SubmissionLacksQueryId => pc = "failed" /\ error = MissingQueryId

\* C3 amended: a 2xx submission response with a JSON body fails with
\* MissingQueryId exactly when status.queryId and the top-level queryId are both
\* absent or empty; a submission response with status >= 300 fails with the HTTP
\* failure of that response instead
C3_MissingQueryId ==
    /\ IsSome(sub) => (SubLacksQueryId <=> (pc = "failed" /\ error = MissingQueryId))
    /\ (Len(requests) = 1 /\ last.status_code >= 300) =>
           /\ pc = "failed"
           /\ error = Exception3(last.status_code, last.reason, ExpectedMessage(last.text))

\* a 201 submission without a query id failed with MissingQueryId
C3_Witness ==
    /\ SubLacksQueryId /\ last.status_code = 201
    /\ SubStatus.queryId = Some("")
    /\ pc = "failed" /\ error = MissingQueryId

\* the structured failure of a missing required field
IsProtocolFailure(e) ==
    e.type = "Exception" /\ e.status = 500 /\ e.reason \in {"MissingQueryId", "MissingRowCount"}
\* the last 2xx response (submission with a query id, or poll) omitted the row count
RowCountOmitted ==
    \/ LastWas2xx("submit") /\ IsSome(sub) /\ ~SubLacksQueryId /\ SubStatus.rowCount = Absent
    \/ LastWas2xx("poll") /\ IsSome(last_poll) /\ Get(last_poll).rowCount = Absent

\* C4: a 2xx submission or poll response without a row count fails with the
\* structured ProtocolFailure error
C4_MissingRowCount ==
    RowCountOmitted => pc = "failed" /\ IsProtocolFailure(error)

\* C5: a 2xx row-fetch response that reports returnedRows = 0 (rows being still
\* outstanding) fails with MissingRows; nothing is returned and the page is not
\* taken as the end of the data
C5_EmptyPageFails ==
    (/\ LastWas2xx("rows")
     /\ IsSome(last_chunk)
     /\ Get(last_chunk).returnedRows = Some(0)) =>
        /\ pc = "failed"
        /\ error = MissingRows
        /\ result = Absent
        /\ Len(rows) < total_row_count

\* the second page reported no rows, although it carried one, and the invocation failed
C5_Witness ==
    /\ pc = "failed" /\ error = MissingRows
    /\ Count("rows") = 2
    /\ Get(last_chunk) = [data |-> Some(<<"a">>), returnedRows |-> Some(0)]
    /\ Len(rows) = 1 /\ total_row_count = 2

\* C6: a response with status >= 300 to the submit, a poll or a row fetch ends the
\* invocation with Exception(status, reason, message) of that response, and no
\* request is sent after it
C6_ErrorEndsInvocation ==
    /\ [](last.status_code >= 300 =>
             /\ pc = "failed"
             /\ error = Exception3(last.status_code, last.reason, ExpectedMessage(last.text)))
    /\ [][last.status_code >= 300 => requests' = requests]_vars

\* a row fetch after a poll was answered 304 and the invocation failed with it
C6_Witness ==
    /\ pc = "failed" /\ error.status = 304 /\ error.reason = "Not Modified"
    /\ error.message = Dumps(Details)
    /\ Count("poll") = 1 /\ Count("rows") = 2
    /\ requests[Len(requests)].kind = "rows"

\* the marker the docstring of run_query promises for a result without rows
EmptyMarker == DataStr("(empty)")

\* C9: a successful invocation whose final row count is zero returns the
\* "(empty)" marker as 'data'
C9_EmptyMarker ==
    (Returned /\ LatestRowCount = Some(0)) => Data = EmptyMarker

(***************************************************************************)
(* Claim of specification SpecE2E                                          *)
(***************************************************************************)
\* the submission returned q1, Running, rowCount 5 and no inline rows
ScenarioSubmitted ==
    /\ IsSome(sub)
    /\ SubStatus.queryId = Some("q1")
    /\ SubStatus.completionStatus = Some("Running")
    /\ SubStatus.rowCount = Some(ScenarioRowCount)
    /\ Inline = <<>>
\* one poll was sent and it returned Finished with rowCount 5
FirstPollFinished ==
    /\ Count("poll") = 1
    /\ last_poll = Some([completionStatus |-> Some("Finished"),
                         rowCount |-> Some(ScenarioRowCount)])
\* one row fetch was sent, at offset 0, and it returned five rows
FirstFetchReturnedAll ==
    /\ Count("rows") = 1
    /\ requests[Len(requests)].kind = "rows"
    /\ requests[Len(requests)].offset = 0
    /\ LastWas2xx("rows")
    /\ IsSome(last_chunk)
    /\ Len(RowsOf(Get(last_chunk))) = ScenarioRowCount
    /\ Get(last_chunk).returnedRows \in {Absent, Some(ScenarioRowCount)}

\* C10: when the submission returns q1, Running, rowCount 5 and no inline
\* rows, the first poll returns Finished with rowCount 5 and the row fetch
\* at offset 0 returns five rows, run_query returns exactly those five rows
\* having sent exactly one submit, one poll and one row-fetch request: no
\* second poll follows the first, the fetch that follows it asks for offset
\* 0, and no request follows the fetch.
C10_EndToEnd ==
    /\ [](ScenarioSubmitted /\ FirstPollFinished =>
            /\ pc # "poll"
            /\ Count("rows") = 0 => pc = "rows" /\ Len(rows) = 0
            /\ FirstFetchReturnedAll =>
                  /\ Returned
                  /\ Data = DataList(RowsOf(Get(last_chunk)))
                  /\ requests = <<SubmitRequest, PollRequest(Some("q1")),
                                   RowsRequest(Some("q1"), 0, pagination_batch_size)>>)
    /\ [][ScenarioSubmitted /\ FirstPollFinished =>
             /\ Count("poll")' = 1
             /\ FirstFetchReturnedAll => requests' = requests]_vars

C10_Witness ==
    /\ ScenarioSubmitted
    /\ FirstPollFinished
    /\ FirstFetchReturnedAll
    /\ Returned
    /\ Data = DataList(ScenarioRows)
    /\ Len(requests) = 3

(***************************************************************************)
(* Claim of specification SpecAuth                                         *)
(***************************************************************************)
\* a credential is stored and the current time is at most its expiry
CredentialCurrent == IsSome(token) /\ IsSome(exp) /\ now <= Get(exp)
\* a credential was stored and its expiry instant has passed
CredentialExpired == IsSome(exp) /\ now > Get(exp)
\* this step is a get_token or get_instance_url call
Called == returned' # returned \/ flows' # flows \/ exp' # exp

\* C7: while a credential is stored and the current time is at most its
\* expiry, a call leaves token, base URL and expiry as they are, returns the
\* stored token (get_token) or the stored base URL (get_instance_url) and
\* starts no authorization flow; a call made after the expiry instant starts
\* exactly one flow, and when that flow stores a credential it is current.
C7_FastPathAndRenewal ==
    /\ [][CredentialCurrent =>
             /\ flows' = flows
             /\ <<token', instance_url', exp'>> = <<token, instance_url, exp>>
             /\ Called => /\ returned'.raised = ""
                          /\ returned'.path = "fast"
                          /\ returned'.value = IF returned'.method = "get_token"
                                               THEN token ELSE instance_url]_vars
    /\ [][CredentialExpired /\ Called =>
             /\ flows' = flows + 1
             /\ IsSome(token') => IsSome(exp') /\ now' <= Get(exp')]_vars

\* a flow started by an expiry stored a credential, and the call after it, at
\* the new credential's expiry instant or before, took the fast path
C7_Witness ==
    /\ flow_cause = "expired"
    /\ flows = 2
    /\ CredentialCurrent
    /\ returned.path = "fast"
    /\ returned.value = instance_url
    /\ returned.method = "get_instance_url"

\* a call made exactly at the expiry instant took the fast path
C7_WitnessAtInstant ==
    /\ IsSome(token) /\ exp = Some(now)
    /\ returned.path = "fast"
    /\ returned.method = "get_token"

(***************************************************************************)
(* Claims of specification SpecFlow                                        *)
(***************************************************************************)
\* the parameters the flow read from the slot
Captured == Get(oauth_result)
\* the flow has read the slot and the parameters in it carry no code
ReadNoCode == reads = 1 /\ IsSome(oauth_result) /\ ~IsSome(Captured.code)
Includes(msg, x) == \E i \in 1..Len(msg) : msg[i] = x
\* no token-exchange POST was sent by the current flow
NoPostInFlow == \A i \in 1..Len(posts) : posts[i].flow # flows
\* a POST is sent only by the step that read a code from the slot, with that code
PostOnlyAfterCode ==
    [][posts' # posts =>
         /\ fpc = "stopped"
         /\ IsSome(Captured.code)
         /\ posts' = Append(posts, TokenRequest(Get(Captured.code), code_verifier, flows))]_vars

\* C11 as stated: the message of the failure includes the provider's error
\* and error_description whenever they were supplied.
C11_AsStated ==
    ReadNoCode =>
        /\ IsSome(Captured.error) => Includes(failure, Get(Captured.error))
        /\ IsSome(Captured.error_description) =>
               Includes(failure, Get(Captured.error_description))

\* C11: when the parameters read from the slot carry no code, the call fails
\* with the Exception of line 153 and the flow sends no token-exchange POST;
\* the message includes the error when supplied, and the error_description
\* when it was supplied together with an error (a description without an
\* error is left out); a POST is sent only after a code was read.
C11_NoCodeFails ==
    /\ [](ReadNoCode =>
            /\ fpc = "idle"
            /\ returned = RaisedIn(caller, "Exception")
            /\ NoPostInFlow
            /\ Includes(failure, NoCodeText)
            /\ ~IsSome(Captured.error) => failure = <<NoCodeText>>
            /\ IsSome(Captured.error) =>
                  /\ Includes(failure, Get(Captured.error))
                  /\ IsSome(Captured.error_description) =>
                        Includes(failure, Get(Captured.error_description))
                  /\ ~IsSome(Captured.error_description) =>
                        failure = <<NoCodeText, ". Error: ", Get(Captured.error)>>)
    /\ PostOnlyAfterCode

C11_Witness ==
    /\ ReadNoCode
    /\ IsSome(Captured.error)
    /\ IsSome(Captured.error_description)
    /\ failure = <<NoCodeText, ". Error: ", "access_denied", " - ", "user denied">>
    /\ posts = <<>>

\* the current flow ended in a failed attempt: no code in the slot, or the
\* token exchange answered with status >= 400
AttemptFailed ==
    /\ fpc = "idle"
    /\ flows > 0
    /\ \/ ReadNoCode
       \/ token_response.status_code >= 400

\* C12: after a failed authorization attempt (callback without code, or
\* token exchange answered with status >= 400) the call has raised and the
\* store holds no token and no expiry, and the next call starts a new flow;
\* the token is only ever set by the step that takes in an exchange answered
\* with status < 400, to the access_token of that answer.
C12_FailedAttemptLeavesNoCredential ==
    /\ [](AttemptFailed =>
            /\ returned.raised \in {"Exception", "HTTPError"}
            /\ returned.method = caller
            /\ token = Absent
            /\ exp = Absent)
    /\ [][AttemptFailed /\ fpc' # fpc => flows' = flows + 1 /\ fpc' = "listening"]_vars
    /\ [][token' # token /\ IsSome(token') =>
             /\ fpc = "exchange"
             /\ token_response'.status_code < 400
             /\ IsSome(token_response'.json)
             /\ Get(token_response'.json).access_token = token']_vars

\* a flow started because the credential had expired failed at the exchange
C12_Witness ==
    /\ AttemptFailed
    /\ flow_cause = "expired"
    /\ token_response.status_code = 400
    /\ IsSome(token_response.json)
    /\ IsSome(Get(token_response.json).access_token)
    /\ returned.raised = "HTTPError"
    /\ token = Absent

\* C13: within one authorization attempt the result slot is written exactly
\* once by the listener, before the single read by the flow: the slot is
\* never written a second time, and once the flow has read it the listener
\* has stopped and exactly one write has happened.
C13_WrittenOnceBeforeRead ==
    /\ writes <= 1
    /\ reads <= 1
    /\ reads = 1 => writes = 1 /\ fpc \notin {"listening", "closing"}

(***************************************************************************)
(* Further claims of specification Spec                                    *)
(***************************************************************************)
Kind(i) == requests[i].kind
\* the requests sent so far are one submit, then polls, then row fetches
SubmitPollsFetches ==
    \A i \in 1..Len(requests) :
        /\ Kind(i) = "submit" <=> i = 1
        /\ \A j \in 1..Len(requests) : i < j /\ Kind(i) = "rows" => Kind(j) = "rows"
Sent(kind) == Len(requests') = Len(requests) + 1 /\ requests'[Len(requests')].kind = kind

\* C14: the requests of one invocation are a submit, then zero or more
\* polls, then zero or more row fetches; a row fetch is sent only when the
\* last reported completionStatus is Finished or ResultsProduced, a poll only
\* while it is neither and only before the first row fetch.
C14_RequestOrder ==
    /\ [](SubmitPollsFetches /\ (Count("rows") > 0 => completion \in Terminal))
    /\ [][Sent("rows") => completion \in Terminal]_vars
    /\ [][Sent("poll") => completion \notin Terminal /\ Count("rows") = 0]_vars
    /\ [][Sent("submit") => requests = <<>>]_vars

C14_Witness ==
    /\ Returned
    /\ Count("poll") = 2
    /\ Count("rows") = 2
    /\ Len(requests) = 5
    /\ completion = Some("ResultsProduced")

\* the indices of the row-fetch requests sent so far
RowFetches == {i \in 1..Len(requests) : Kind(i) = "rows"}

C16_ProgressOrFailure ==
    /\ [][Sent("rows") /\ last'.status_code < 300 /\ error' # JSONDecodeError =>
             Len(rows') > Len(rows) \/ error' = MissingRows]_vars
    /\ [](Count("rows") <= total_row_count)

(***************************************************************************)
(* Further claims of specification SpecFlow                                *)
(***************************************************************************)
\* the verifiers sent in token-exchange POSTs so far
SentVerifiers == {posts[i].code_verifier : i \in 1..Len(posts)}

\* C17: each flow generates a new PKCE pair, the challenge being the digest
\* of the verifier, and puts the challenge in the authorization URL; the
\* token-exchange POST of the flow carries the verifier of that pair, not
\* the challenge; no verifier is sent in two POSTs, no flow sends two POSTs,
\* and a new flow never takes a verifier that an earlier flow had.
C17_PkcePerAttempt ==
    /\ [](/\ fpc # "idle" =>
                /\ code_verifier.kind = "verifier"
                /\ code_challenge = Challenge(code_verifier)
                /\ browser_uri = code_challenge
          /\ fpc = "exchange" =>
                /\ posts[Len(posts)].code_verifier = code_verifier
                /\ posts[Len(posts)].flow = flows
          /\ \A i, j \in 1..Len(posts) :
                i # j => /\ posts[i].code_verifier # posts[j].code_verifier
                         /\ posts[i].flow # posts[j].flow
          /\ \A i \in 1..Len(posts) : posts[i].code_verifier.kind = "verifier")
    /\ [][flows' # flows =>
             /\ code_verifier' # code_verifier
             /\ code_verifier' \notin SentVerifiers]_vars

\* the second flow has sent its POST, with another verifier than the first
C17_Witness ==
    /\ fpc = "exchange"
    /\ flows = 2
    /\ Len(posts) = 2
    /\ posts[1].code_verifier = Verifier(1)
    /\ posts[2].code_verifier = Verifier(2)
    /\ browser_uri = Challenge(Verifier(2))

(***************************************************************************)
(* Claim of specification SpecConc                                         *)
(***************************************************************************)
\* caller c takes a step from line l
Leaves(c, l) == cpc[c] = l /\ cpc'[c] # l

\* C18: ensure_access is not safe under concurrent callers.  A caller that
\* has the store to itself starts a flow only when the store holds no token,
\* and starts none when it finds one; but line 189 stores the token of the
\* caller's own flow whatever the store holds by then, so that of two
\* interleaved callers both can start a flow for one missing credential and
\* the later result overwrites the earlier (the witness).
C18_ConcurrentCallers ==
    /\ [][\A c \in Callers :
             /\ Leaves(c, "l187") /\ alone[c] =>
                   /\ token = Absent
                   /\ flows' = flows + 1
                   /\ \A d \in Callers \ {c} : cpc[d] = "idle"
             /\ Leaves(c, "l186") /\ alone[c] /\ IsSome(token) =>
                   cpc'[c] = "l193" /\ flows' = flows
             /\ Leaves(c, "l189") /\ IsSome(auth_info_of[c].access_token) =>
                   token' = auth_info_of[c].access_token]_vars
    /\ [](\A c \in Callers : cpc[c] \in {"l187", "flow"} /\ alone[c] => token = Absent)

\* both callers found no token and each ran a flow although no credential
\* expired in between: c1 returned the token of its flow, then c2 stored the
\* token of its own over it
C18_Witness ==
    /\ now = 0
    /\ flows = 2
    /\ cpc = [c \in Callers |-> IF c = "c2" THEN "l190" ELSE "idle"]
    /\ returned = ReturnedValue("c1", "", Some("t1"))
    /\ token = Some("t2")
    /\ auth_info_of["c1"].access_token = Some("t1")
    /\ ~alone["c2"]

(***************************************************************************)
(* Claims of specification Spec on what run_query keeps and returns        *)
(***************************************************************************)
\* the metadata the submission response carried, empty if none
SubmittedMetadata == IF IsSome(Get(sub).metadata) THEN Get(Get(sub).metadata) ELSE <<>>
\* the query id of the submission response: the one of its status object,
\* else the top-level one
SubmittedQueryId ==
    IF ~Falsy(SubStatus.queryId) THEN SubStatus.queryId ELSE Get(sub).queryId

\* C19: the metadata run_query returns is the metadata of the submission
\* response, empty if it carried none; no poll and no row fetch changes the
\* metadata or the query id, and every poll and row-fetch request carries
\* the query id of the submission.
C19_MetadataAndQueryIdFixed ==
    /\ [](/\ Returned => Get(result).metadata = SubmittedMetadata
          /\ \A i \in 2..Len(requests) : requests[i].query_id = SubmittedQueryId)
    /\ [][Sent("poll") \/ Sent("rows") =>
             /\ metadata' = metadata
             /\ metadata = SubmittedMetadata
             /\ query_id' = query_id
             /\ query_id = SubmittedQueryId]_vars

C19_Witness ==
    /\ Returned
    /\ Get(result).metadata = <<"col1">>
    /\ Count("poll") = 1
    /\ Count("rows") = 1
    /\ SubStatus.queryId = Some("")
    /\ requests[2] = PollRequest(Some("q2"))
    /\ requests[3] = RowsRequest(Some("q2"), 0, PageSize)

\* C20: run_query never returns with fewer rows than the latest reported
\* row count: once the status is terminal, an invocation holding fewer rows
\* is about to send another row fetch or has failed.
C20_NoShortReturn ==
    /\ Returned => /\ IsSome(LatestRowCount)
                   /\ Len(Data.list) >= Get(LatestRowCount)
    /\ (/\ pc \notin {"submit", "poll"}
        /\ IsSome(LatestRowCount)
        /\ total_row_count = Get(LatestRowCount)
        /\ Len(rows) < Get(LatestRowCount)) => pc \in {"rows", "failed"}

C20_Witness ==
    /\ Returned
    /\ Count("poll") = 0
    /\ Count("rows") = 2
    /\ LatestRowCount = Some(MaxRowCount)
    /\ Len(Data.list) = MaxRowCount

(***************************************************************************)
(* Claims of specification SpecRun                                         *)
(***************************************************************************)
\* C21: the base URL and the bearer token with which a run_query invocation
\* goes on to submit come from the same authorization exchange.
C21_SameCredential ==
    rpc = "l71" => base_url_from = bearer_from

\* C22: after any sequence of calls the store is consistent: a token is
\* stored exactly when an expiry is, and with a stored token the stored
\* instance URL is present and was delivered by the same exchange response.
C22_StoreConsistent ==
    /\ IsSome(token) <=> IsSome(exp)
    /\ IsSome(token) => IsSome(instance_url) /\ url_from = token_from

====
